---- MODULE Spec2Model ----
(***************************************************************************)
(* Verification model of the virtualSandbox repository.                    *)
(*                                                                         *)
(*  Part I   the Solidity demo contracts Counter and ParallelCounter       *)
(*           (contracts/Counter.sol, contracts/ParallelCounter.sol): the   *)
(*           storage slots, one action per external function.              *)
(*  Part II  concurrently submitted Counter transactions, applied in any   *)
(*           order.                                                        *)
(*  Part III the instance files and the init / deploy / benchmark / list / *)
(*           demo commands of the Hardhat tasks (src/tasks/*.ts) and of    *)
(*           the plugin-based CLI (cli.cjs, hardhat3-plugin.mjs).          *)
(***************************************************************************)
EXTENDS Integers, Sequences, FiniteSets, TLC

VARIABLES
    contract,      \* which contract is deployed: "Counter" or "ParallelCounter"
    storage,       \* the contract's storage, slot number -> word
    now,           \* block.timestamp of the next transaction
    lastTx,        \* the last transaction: [op, sender, arg, status]
    txs,           \* number of transactions sent so far
    decremented,   \* a decrement() has succeeded since deployment
    deployer,      \* msg.sender of the constructor
    pending,       \* Part II: transactions submitted and not yet mined
    submitted,     \* Part II: all transactions that were submitted
    count0,        \* Part II: getCount() when the transactions were submitted
    evvmFiles,     \* Part III: .evvm/instances/<id>.json, id -> file or NoFile
    evvmLogs,      \* Part III: ids with .evvm/instances/<id>/logs/deployment.json
    evvmResults,   \* Part III: ids with a benchmark-*.json results file (tasks)
    cliFiles,      \* Part III: instances/<id>.json, id -> file or NoFile
    cliResults,    \* Part III: ids with a benchmark-results/<id>-*.json file
    clock,         \* Part III: the wall clock (Date.now(), file mtime)
    cmds,          \* Part III: number of commands run so far
    lastCmd,       \* Part III: the last command and how it ended
    run,           \* Part IV: the benchmark or executor call in progress: its
                   \*   arguments, its local variables and where it stands
    wrapper,       \* Part V: hardhat3-wrapper.mjs: its arguments and what it did
    loop           \* Part IV: the loop that cuts a list into chunks, step by step

contractVars == <<contract, storage, now, lastTx, txs, decremented, deployer>>
submitVars == <<pending, submitted, count0>>
taskVars == <<evvmFiles, evvmLogs, evvmResults, cliFiles, cliResults, clock, cmds, lastCmd>>
runVars == <<run, loop>>
vars == <<contract, storage, now, lastTx, txs, decremented, deployer, pending, submitted, count0,
          evvmFiles, evvmLogs, evvmResults, cliFiles, cliResults, clock, cmds, lastCmd,
          run, wrapper, loop>>

(***************************************************************************)
(* Bounds.                                                                 *)
(***************************************************************************)
\* the largest value of a storage word; stands for type(uint256).max
MaxUint == 2047
\* number of externally owned accounts that send transactions
NumAddrs == 2
\* largest block timestamp
MaxTime == 1
\* number of transactions sent to one deployed contract
MaxTxs == 3
\* number of callers that submit a transaction concurrently
NumSenders == 3
\* number of instance ids
NumIds == 2
\* largest value of the wall clock
MaxClock == 1
\* number of commands run
MaxCmds == 3
\* largest transaction count of a benchmark or executor call
MaxTxCount == 3
\* largest concurrency argument tried, besides the default
MaxConcurrency == 2
\* largest number of command line arguments of the wrapper
MaxArgs == 3
\* number of iterations of the chunking loop that are followed
MaxIterations == 4

(***************************************************************************)
(* Program constants.                                                      *)
(***************************************************************************)
\* require(iterations <= 100)
MaxBatch == 100
\* require(amount <= 1000)
MaxAmount == 1000
\* concurrency = 4, defaultConcurrency || 4
DefaultConcurrency == 4
\* Math.ceil(totalTransactions / 4) in calculateBenchmarkResult
ArcologyGroupSize == 4

Addrs == 1..NumAddrs
\* the arguments tried for incrementBy / batchIncrement: the edges of the guards
Amounts == {0, 1, MaxBatch, MaxBatch + 1, MaxAmount, MaxAmount + 1, MaxUint}
GroupIds == {7}

(***************************************************************************)
(* Storage layout.  Counter: slot 0 _count, slot 1 _lastIncrement, slot 2  *)
(* _owner.  ParallelCounter: slot 0 _count, slot 1 _lastIncrement, slot 2  *)
(* _totalIncrements, slot 3 _owner.                                        *)
(***************************************************************************)
Slots == 0..3
SlotCount == 0
SlotLastIncrement == 1
SlotTotalIncrements == 2
SlotOwner(c) == IF c = "Counter" THEN 2 ELSE 3

PanicOverflow == "Panic(0x11)"

Ok(s) == [status |-> "ok", storage |-> s]
Revert(s, msg) == [status |-> msg, storage |-> s]

\* EVM add: wraps modulo 2^256
add(a, b) == (a + b) % (MaxUint + 1)

\* Solidity 0.8 checked addition overflows exactly when the sum leaves the word
Overflows(a, b) == a + b > MaxUint

(***************************************************************************)
(* Counter.sol                                                             *)
(***************************************************************************)
Counter_constructor(sender, ts) ==
    [sl \in Slots |-> CASE sl = 2 -> sender
                        [] sl = 0 -> 0
                        [] sl = 1 -> ts
                        [] OTHER -> 0]

Counter_onlyOwner(s, sender) == sender = s[2]

Counter_increment(s, sender, ts) ==
    IF Overflows(s[0], 1) THEN Revert(s, PanicOverflow)
    ELSE Ok([s EXCEPT ![0] = s[0] + 1, ![1] = ts])

\* bug: `_count = amount` for `_count += amount`
Counter_incrementBy_assigns(s, sender, ts, amount) ==
    IF ~(amount > 0) THEN Revert(s, "Counter: amount must be greater than 0")
    ELSE Ok([s EXCEPT ![0] = amount, ![1] = ts])

Counter_incrementBy(s, sender, ts, amount) ==
    IF ~(amount > 0) THEN Revert(s, "Counter: amount must be greater than 0")
    ELSE IF Overflows(s[0], amount) THEN Revert(s, PanicOverflow)
    ELSE Ok([s EXCEPT ![0] = s[0] + amount, ![1] = ts])

\* bug: no require, the subtraction in an unchecked block
Counter_decrement_unchecked(s, sender, ts) ==
    Ok([s EXCEPT ![0] = (s[0] + MaxUint) % (MaxUint + 1)])

Counter_decrement(s, sender, ts) ==
    IF ~(s[0] > 0) THEN Revert(s, "Counter: count cannot be negative")
    ELSE Ok([s EXCEPT ![0] = s[0] - 1])

Counter_reset(s, sender, ts) ==
    IF ~Counter_onlyOwner(s, sender) THEN Revert(s, "Counter: caller is not the owner")
    ELSE Ok([s EXCEPT ![0] = 0])

\* for (i = 0; i < iterations; i++) _count++;   -1 stands for the overflow panic
RECURSIVE Counter_batchLoop(_, _, _)
Counter_batchLoop(count, i, iterations) ==
    IF ~(i < iterations) THEN count
    ELSE IF Overflows(count, 1) THEN -1
    ELSE Counter_batchLoop(count + 1, i + 1, iterations)

Counter_batchIncrement(s, sender, ts, iterations) ==
    IF ~(iterations > 0) THEN Revert(s, "Counter: iterations must be greater than 0")
    ELSE IF ~(iterations <= MaxBatch) THEN Revert(s, "Counter: iterations cannot exceed 100")
    ELSE LET c == Counter_batchLoop(s[0], 0, iterations)
         IN IF c = -1 THEN Revert(s, PanicOverflow)
            ELSE Ok([s EXCEPT ![0] = c, ![1] = ts])

\* assembly { sstore(0, add(sload(0), 1))  sstore(1, timestamp()) }
Counter_fastIncrement(s, sender, ts) ==
    LET count == s[0]
        s1 == [s EXCEPT ![0] = add(count, 1)]
        s2 == [s1 EXCEPT ![1] = ts]
    IN Ok(s2)

(***************************************************************************)
(* ParallelCounter.sol                                                     *)
(***************************************************************************)
ParallelCounter_constructor(sender, ts) ==
    [sl \in Slots |-> CASE sl = 3 -> sender
                        [] sl = 0 -> 0
                        [] sl = 1 -> ts
                        [] sl = 2 -> 0]

\* bug: the modifier lets every caller through
ParallelCounter_onlyOwner_any(s, sender) == sender \in Addrs

ParallelCounter_onlyOwner(s, sender) == sender = s[3]

ParallelCounter_increment(s, sender, ts) ==
    IF Overflows(s[0], 1) \/ Overflows(s[2], 1) THEN Revert(s, PanicOverflow)
    ELSE Ok([s EXCEPT ![0] = s[0] + 1, ![1] = ts, ![2] = s[2] + 1])

\* bug: `amount < 1000` for `amount <= 1000`
ParallelCounter_incrementBy_strict(s, sender, ts, amount) ==
    IF ~(amount > 0) THEN Revert(s, "ParallelCounter: amount must be greater than 0")
    ELSE IF ~(amount < MaxAmount)
         THEN Revert(s, "ParallelCounter: amount too large for parallel execution")
    ELSE IF Overflows(s[0], amount) \/ Overflows(s[2], amount) THEN Revert(s, PanicOverflow)
    ELSE Ok([s EXCEPT ![0] = s[0] + amount, ![1] = ts, ![2] = s[2] + amount])

ParallelCounter_incrementBy(s, sender, ts, amount) ==
    IF ~(amount > 0) THEN Revert(s, "ParallelCounter: amount must be greater than 0")
    ELSE IF ~(amount <= MaxAmount)
         THEN Revert(s, "ParallelCounter: amount too large for parallel execution")
    ELSE IF Overflows(s[0], amount) \/ Overflows(s[2], amount) THEN Revert(s, PanicOverflow)
    ELSE Ok([s EXCEPT ![0] = s[0] + amount, ![1] = ts, ![2] = s[2] + amount])

ParallelCounter_batchIncrement(s, sender, ts, iterations) ==
    IF ~(iterations > 0)
    THEN Revert(s, "ParallelCounter: iterations must be greater than 0")
    ELSE IF ~(iterations <= MaxBatch)
         THEN Revert(s, "ParallelCounter: iterations cannot exceed 100")
    ELSE IF Overflows(s[0], iterations) \/ Overflows(s[2], iterations)
         THEN Revert(s, PanicOverflow)
    ELSE Ok([s EXCEPT ![0] = s[0] + iterations, ![2] = s[2] + iterations, ![1] = ts])

ParallelCounter_parallelIncrement(s, sender, ts, groupId) ==
    IF Overflows(s[0], 1) \/ Overflows(s[2], 1) THEN Revert(s, PanicOverflow)
    ELSE Ok([s EXCEPT ![0] = s[0] + 1, ![1] = ts, ![2] = s[2] + 1])

ParallelCounter_decrement(s, sender, ts) ==
    IF ~(s[0] > 0) THEN Revert(s, "ParallelCounter: count cannot be negative")
    ELSE Ok([s EXCEPT ![0] = s[0] - 1, ![1] = ts])

ParallelCounter_reset(s, sender, ts) ==
    IF ~ParallelCounter_onlyOwner(s, sender)
    THEN Revert(s, "ParallelCounter: caller is not the owner")
    ELSE Ok([s EXCEPT ![0] = 0, ![2] = 0, ![1] = ts])

\* bug: Counter's assembly block, which leaves slot 2 alone
ParallelCounter_fastIncrement_twoSlots(s, sender, ts) ==
    LET count == s[0]
        s1 == [s EXCEPT ![0] = add(count, 1)]
        s2 == [s1 EXCEPT ![1] = ts]
    IN Ok(s2)

\* assembly { sstore(0, add(sload(0), 1))  sstore(1, timestamp())
\*            sstore(2, add(sload(2), 1)) }
ParallelCounter_fastIncrement(s, sender, ts) ==
    LET count == s[0]
        s1 == [s EXCEPT ![0] = add(count, 1)]
        s2 == [s1 EXCEPT ![1] = ts]
        s3 == [s2 EXCEPT ![2] = add(s2[2], 1)]
    IN Ok(s3)

ParallelCounter_concurrentIncrement(s, sender, ts) ==
    LET currentCount == s[0]
        currentTotal == s[2]
    IN IF Overflows(currentCount, 1) \/ Overflows(currentTotal, 1)
       THEN Revert(s, PanicOverflow)
       ELSE Ok([s EXCEPT ![0] = currentCount + 1, ![2] = currentTotal + 1, ![1] = ts])

\* the view functions
getCount == storage[SlotCount]
getLastIncrement == storage[SlotLastIncrement]
getTotalIncrements == storage[SlotTotalIncrements]
getOwner == storage[SlotOwner(contract)]

(***************************************************************************)
(* Part I: transactions sent to one deployed contract.  A transaction is   *)
(* atomic: it either commits the storage its function computed or reverts  *)
(* and leaves the storage as it was.                                       *)
(***************************************************************************)
Exec(op, sender, arg, r) ==
    /\ txs < MaxTxs
    /\ storage' = r.storage
    /\ lastTx' = [op |-> op, sender |-> sender, arg |-> arg, status |-> r.status]
    /\ txs' = txs + 1
    /\ decremented' = (decremented \/ (op = "decrement" /\ r.status = "ok"))
    /\ UNCHANGED <<contract, now, deployer>>
    /\ UNCHANGED submitVars
    /\ UNCHANGED taskVars
    /\ UNCHANGED runVars
    /\ UNCHANGED wrapper

increment ==
    \E sender \in Addrs :
        Exec("increment", sender, 0,
             IF contract = "Counter" THEN Counter_increment(storage, sender, now)
             ELSE ParallelCounter_increment(storage, sender, now))

incrementBy ==
    \E sender \in Addrs, amount \in Amounts :
        Exec("incrementBy", sender, amount,
             IF contract = "Counter" THEN Counter_incrementBy(storage, sender, now, amount)
             ELSE ParallelCounter_incrementBy(storage, sender, now, amount))

decrement ==
    \E sender \in Addrs :
        Exec("decrement", sender, 0,
             IF contract = "Counter" THEN Counter_decrement(storage, sender, now)
             ELSE ParallelCounter_decrement(storage, sender, now))

reset ==
    \E sender \in Addrs :
        Exec("reset", sender, 0,
             IF contract = "Counter" THEN Counter_reset(storage, sender, now)
             ELSE ParallelCounter_reset(storage, sender, now))

batchIncrement ==
    \E sender \in Addrs, iterations \in Amounts :
        Exec("batchIncrement", sender, iterations,
             IF contract = "Counter"
             THEN Counter_batchIncrement(storage, sender, now, iterations)
             ELSE ParallelCounter_batchIncrement(storage, sender, now, iterations))

fastIncrement ==
    \E sender \in Addrs :
        Exec("fastIncrement", sender, 0,
             IF contract = "Counter" THEN Counter_fastIncrement(storage, sender, now)
             ELSE ParallelCounter_fastIncrement(storage, sender, now))

parallelIncrement ==
    /\ contract = "ParallelCounter"
    /\ \E sender \in Addrs, groupId \in GroupIds :
        Exec("parallelIncrement", sender, groupId,
             ParallelCounter_parallelIncrement(storage, sender, now, groupId))

concurrentIncrement ==
    /\ contract = "ParallelCounter"
    /\ \E sender \in Addrs :
        Exec("concurrentIncrement", sender, 0,
             ParallelCounter_concurrentIncrement(storage, sender, now))

\* a later block: block.timestamp never decreases
NextBlock ==
    /\ now < MaxTime
    /\ now' = now + 1
    /\ UNCHANGED <<contract, storage, lastTx, txs, decremented, deployer>>
    /\ UNCHANGED submitVars
    /\ UNCHANGED taskVars
    /\ UNCHANGED runVars
    /\ UNCHANGED wrapper

InitContract ==
    /\ contract \in {"Counter", "ParallelCounter"}
    /\ deployer \in Addrs
    /\ now = 0
    /\ storage = IF contract = "Counter" THEN Counter_constructor(deployer, now)
                 ELSE ParallelCounter_constructor(deployer, now)
    /\ lastTx = [op |-> "constructor", sender |-> deployer, arg |-> 0, status |-> "ok"]
    /\ txs = 0
    /\ decremented = FALSE

(***************************************************************************)
(* Part II: several callers submit one count-increasing Counter            *)
(* transaction each at the same time (test/Counter.ts "Parallel Execution  *)
(* Simulation"); the chain applies them one after the other, in any order. *)
(***************************************************************************)
Senders == 1..NumSenders
TxChoices ==
    [op : {"increment", "fastIncrement"}, arg : {1}]
    \cup [op : {"incrementBy"}, arg : {2, MaxUint}]
    \cup [op : {"batchIncrement"}, arg : {3, MaxBatch}]
InitialCounts == {0, 5}

\* the function a submitted transaction calls
Counter_call(s, tx, ts) ==
    CASE tx.op = "increment" -> Counter_increment(s, tx.sender, ts)
      [] tx.op = "fastIncrement" -> Counter_fastIncrement(s, tx.sender, ts)
      [] tx.op = "incrementBy" -> Counter_incrementBy(s, tx.sender, ts, tx.arg)
      [] tx.op = "batchIncrement" -> Counter_batchIncrement(s, tx.sender, ts, tx.arg)

RECURSIVE SumAmounts(_)
SumAmounts(S) ==
    IF S = {} THEN 0
    ELSE LET tx == CHOOSE t \in S : TRUE IN tx.arg + SumAmounts(S \ {tx})

Mine ==
    \E tx \in pending :
        LET r == Counter_call(storage, tx, now) IN
        /\ storage' = r.storage
        /\ pending' = pending \ {tx}
        /\ UNCHANGED <<contract, now, lastTx, txs, decremented, deployer, submitted, count0>>
        /\ UNCHANGED taskVars
        /\ UNCHANGED runVars
        /\ UNCHANGED wrapper

InitSubmit ==
    /\ contract = "Counter"
    /\ deployer = 1
    /\ now = 0
    /\ count0 \in InitialCounts
    /\ storage = [Counter_constructor(deployer, now) EXCEPT ![0] = count0]
    /\ lastTx = [op |-> "constructor", sender |-> deployer, arg |-> 0, status |-> "ok"]
    /\ txs = 0
    /\ decremented = FALSE
    /\ \E who \in SUBSET Senders :
         \E f \in [who -> TxChoices] :
            submitted = {[sender |-> a, op |-> f[a].op, arg |-> f[a].arg] : a \in who}
    /\ pending = submitted

IdleSubmit ==
    /\ pending = {}
    /\ submitted = {}
    /\ count0 = 0

(***************************************************************************)
(* Part III: instance files and commands.                                  *)
(***************************************************************************)
Ids == 1..NumIds
\* what the command line can name: an instance id, or 0 when --instance is omitted
NoArg == 0
\* a field the object literal does not set (undefined)
Missing == -1
NoFile == [status |-> "absent"]
\* `0x${Math.random().toString(16).substr(2, 40)}`
ContractAddrs == {"0xa", "0xb"}
Modes == {"all", "serial", "parallel", "evvm-async", "turbo"}
\* the steps of evvm:deploy that can fail for reasons outside the program
DeployFaults == {"none", "compile", "log"}

\* class EVVMInstance: every field falls back to a default when it is falsy
EVVMInstance(instance, t) ==
    [id |-> instance.id,
     contractAddress |-> instance.contractAddress,
     status |-> IF instance.status = "" THEN "initialized" ELSE instance.status,
     createdAt |-> IF instance.createdAt = Missing THEN t ELSE instance.createdAt,
     lastActivity |-> IF instance.lastActivity = Missing THEN t ELSE instance.lastActivity]

EVVMPlugin_initInstance(id, t) ==
    EVVMInstance([id |-> id, contractAddress |-> "", status |-> "initialized",
                  createdAt |-> Missing, lastActivity |-> Missing], t)

\* bug: the status is left to the constructor's default
EVVMPlugin_deployContract_noStatus(instance, addr, t) ==
    EVVMInstance([instance EXCEPT !.contractAddress = addr,
                                  !.status = "",
                                  !.lastActivity = t], t)

EVVMPlugin_deployContract(instance, addr, t) ==
    EVVMInstance([instance EXCEPT !.contractAddress = addr,
                                  !.status = "deployed",
                                  !.lastActivity = t], t)

\* fs.writeJson(<id>.json, instance): the file holds the record, its mtime is now
WriteFile(files, id, instance, t) ==
    [files EXCEPT ![id] = [id |-> instance.id,
                           contractAddress |-> instance.contractAddress,
                           status |-> instance.status,
                           createdAt |-> instance.createdAt,
                           lastActivity |-> instance.lastActivity,
                           mtime |-> t]]

Existing(files) == {i \in Ids : files[i] # NoFile}

\* bug: sort((a, b) => a.mtime - b.mtime)[0], the file of least mtime
MostRecent_oldest(files) ==
    {i \in Existing(files) : \A j \in Existing(files) : files[j].mtime >= files[i].mtime}

\* sort((a, b) => b.mtime - a.mtime)[0]: a file of greatest mtime; among files
\* of equal mtime the directory order decides, which is any order
MostRecent(files) ==
    {i \in Existing(files) : \A j \in Existing(files) : files[j].mtime <= files[i].mtime}

\* the instance id the Hardhat tasks act on; 0: no instance file at all
SelectInstance(files, arg) ==
    IF arg # NoArg THEN {arg}
    ELSE IF Existing(files) = {} THEN {0}
    ELSE MostRecent(files)

ErrNone == ""
ErrNoInstances == "No EVVM instances found"
ErrNotFound == "Instance not found"
ErrNotInitialized == "is not in initialized state"
ErrNotDeployed == "is not deployed"
ErrCompile == "compile failed"
ErrWrite == "write failed"
ErrBigInt == "Do not know how to serialize a BigInt"

\* the types of the fields of the results record the Hardhat task writes
TaskResultTypes ==
    [mode |-> "string", totalTransactions |-> "number",
     successfulTransactions |-> "number", failedTransactions |-> "number",
     totalTimeMs |-> "number", averageLatencyMs |-> "number", tps |-> "number",
     totalGasUsed |-> "bigint", averageGasPerTx |-> "bigint",
     errors |-> "array", timestamp |-> "string"]

\* the plugin's results: totalGasUsed.toString()
PluginResultTypes ==
    [TaskResultTypes EXCEPT !.totalGasUsed = "string", !.averageGasPerTx = "string"]

\* JSON.stringify throws a TypeError on a BigInt value
JsonStringifyThrows(types) == \E f \in DOMAIN types : types[f] = "bigint"

Cmd(cmd, front, arg, id, demo, mode, error, ran) ==
    [cmd |-> cmd, front |-> front, arg |-> arg, id |-> id, demo |-> demo, mode |-> mode,
     exit |-> IF error = ErrNone THEN 0 ELSE 1, error |-> error, ran |-> ran]

\* tasks/evvm-init.ts
evvm_init ==
    /\ cmds < MaxCmds
    /\ \E instanceId \in Ids \ (Existing(evvmFiles) \cup Existing(cliFiles)) :
        LET instance == [id |-> instanceId, contractAddress |-> "",
                         status |-> "initialized", createdAt |-> clock,
                         lastActivity |-> clock]
        IN /\ evvmFiles' = WriteFile(evvmFiles, instanceId, instance, clock)
           /\ lastCmd' = Cmd("init", "task", NoArg, instanceId, FALSE, "", ErrNone, <<>>)
    /\ cmds' = cmds + 1
    /\ UNCHANGED <<evvmLogs, evvmResults, cliFiles, cliResults, clock>>
    /\ UNCHANGED contractVars
    /\ UNCHANGED submitVars
    /\ UNCHANGED runVars
    /\ UNCHANGED wrapper

\* bug: no check of the instance's status, as in the plugin's deploy
evvm_deploy_run_anyStatus(files, logs, instanceId, addr, t, fault) ==
    IF instanceId = 0
    THEN [files |-> files, logs |-> logs, error |-> ErrNoInstances, ran |-> <<>>]
    ELSE IF files[instanceId] = NoFile
    THEN [files |-> files, logs |-> logs, error |-> ErrNotFound, ran |-> <<>>]
    ELSE IF fault = "compile"
    THEN [files |-> files, logs |-> logs, error |-> ErrCompile, ran |-> <<"compile">>]
    ELSE LET instance == [files[instanceId] EXCEPT !.contractAddress = addr,
                                                   !.status = "deployed",
                                                   !.lastActivity = t]
             written == WriteFile(files, instanceId, instance, t)
         IN IF fault = "log"
            THEN [files |-> written, logs |-> logs, error |-> ErrWrite,
                  ran |-> <<"compile", "deploy">>]
            ELSE [files |-> written, logs |-> logs \cup {instanceId}, error |-> ErrNone,
                  ran |-> <<"compile", "deploy">>]

\* tasks/evvm-deploy.ts: what the task leaves behind
evvm_deploy_run(files, logs, instanceId, addr, t, fault) ==
    IF instanceId = 0
    THEN [files |-> files, logs |-> logs, error |-> ErrNoInstances, ran |-> <<>>]
    ELSE IF files[instanceId] = NoFile
    THEN [files |-> files, logs |-> logs, error |-> ErrNotFound, ran |-> <<>>]
    ELSE IF files[instanceId].status # "initialized"
    THEN [files |-> files, logs |-> logs, error |-> ErrNotInitialized, ran |-> <<>>]
    ELSE IF fault = "compile"
    THEN [files |-> files, logs |-> logs, error |-> ErrCompile, ran |-> <<"compile">>]
    ELSE LET instance == [files[instanceId] EXCEPT !.contractAddress = addr,
                                                   !.status = "deployed",
                                                   !.lastActivity = t]
             written == WriteFile(files, instanceId, instance, t)
         IN IF fault = "log"
            THEN [files |-> written, logs |-> logs, error |-> ErrWrite,
                  ran |-> <<"compile", "deploy">>]
            ELSE [files |-> written, logs |-> logs \cup {instanceId}, error |-> ErrNone,
                  ran |-> <<"compile", "deploy">>]

evvm_deploy ==
    /\ cmds < MaxCmds
    /\ \E arg \in Ids \cup {NoArg}, addr \in ContractAddrs, fault \in DeployFaults :
        \E instanceId \in SelectInstance(evvmFiles, arg) :
            LET r == evvm_deploy_run(evvmFiles, evvmLogs, instanceId, addr, clock, fault)
            IN /\ evvmFiles' = r.files
               /\ evvmLogs' = r.logs
               /\ lastCmd' = Cmd("deploy", "task", arg, instanceId, FALSE, "", r.error, r.ran)
    /\ cmds' = cmds + 1
    /\ UNCHANGED <<evvmResults, cliFiles, cliResults, clock>>
    /\ UNCHANGED contractVars
    /\ UNCHANGED submitVars
    /\ UNCHANGED runVars
    /\ UNCHANGED wrapper

\* bug: --demo skips the check of the instance's status
evvm_benchmark_run_demoSkips(files, results, instanceId, demo) ==
    IF instanceId = 0
    THEN [results |-> results, error |-> ErrNoInstances, ran |-> <<>>]
    ELSE IF files[instanceId] = NoFile
    THEN [results |-> results, error |-> ErrNotFound, ran |-> <<>>]
    ELSE IF ~demo /\ files[instanceId].status # "deployed"
    THEN [results |-> results, error |-> ErrNotDeployed, ran |-> <<>>]
    ELSE IF JsonStringifyThrows(TaskResultTypes)
    THEN [results |-> results, error |-> ErrBigInt,
          ran |-> <<"serial", "parallel", "evvm-async">>]
    ELSE [results |-> results \cup {instanceId}, error |-> ErrNone,
          ran |-> <<"serial", "parallel", "evvm-async">>]

\* tasks/evvm-benchmark.ts: what the task leaves behind
evvm_benchmark_run(files, results, instanceId, demo) ==
    IF instanceId = 0
    THEN [results |-> results, error |-> ErrNoInstances, ran |-> <<>>]
    ELSE IF files[instanceId] = NoFile
    THEN [results |-> results, error |-> ErrNotFound, ran |-> <<>>]
    ELSE IF files[instanceId].status # "deployed"
    THEN [results |-> results, error |-> ErrNotDeployed, ran |-> <<>>]
    ELSE IF JsonStringifyThrows(TaskResultTypes)
    THEN [results |-> results, error |-> ErrBigInt,
          ran |-> <<"serial", "parallel", "evvm-async">>]
    ELSE [results |-> results \cup {instanceId}, error |-> ErrNone,
          ran |-> <<"serial", "parallel", "evvm-async">>]

evvm_benchmark ==
    /\ cmds < MaxCmds
    /\ \E arg \in Ids \cup {NoArg}, demo \in BOOLEAN :
        \E instanceId \in SelectInstance(evvmFiles, arg) :
            LET r == evvm_benchmark_run(evvmFiles, evvmResults, instanceId, demo)
            IN /\ evvmResults' = r.results
               /\ lastCmd' = Cmd("benchmark", "task", arg, instanceId, demo, "all",
                                 r.error, r.ran)
    /\ cmds' = cmds + 1
    /\ UNCHANGED <<evvmFiles, evvmLogs, cliFiles, cliResults, clock>>
    /\ UNCHANGED contractVars
    /\ UNCHANGED submitVars
    /\ UNCHANGED runVars
    /\ UNCHANGED wrapper

\* cli.cjs init, hardhat3-plugin.mjs evvm:init
cli_init ==
    /\ cmds < MaxCmds
    /\ \E id \in Ids \ (Existing(evvmFiles) \cup Existing(cliFiles)) :
        LET instance == EVVMPlugin_initInstance(id, clock)
        IN /\ cliFiles' = WriteFile(cliFiles, instance.id, instance, clock)
           /\ lastCmd' = Cmd("init", "cli", NoArg, instance.id, FALSE, "", ErrNone, <<>>)
    /\ cmds' = cmds + 1
    /\ UNCHANGED <<evvmFiles, evvmLogs, evvmResults, cliResults, clock>>
    /\ UNCHANGED contractVars
    /\ UNCHANGED submitVars
    /\ UNCHANGED runVars
    /\ UNCHANGED wrapper

\* bug: no pathExists check, a missing instance is created by the deploy
cli_deploy_run_creates(files, instanceId, addr, t) ==
    LET instance == IF files[instanceId] = NoFile
                    THEN EVVMPlugin_initInstance(instanceId, t)
                    ELSE files[instanceId]
        deployedInstance == EVVMPlugin_deployContract(instance, addr, t)
    IN [files |-> WriteFile(files, instanceId, deployedInstance, t),
        error |-> ErrNone, ran |-> <<"deploy">>]

\* cli.cjs deploy, hardhat3-plugin.mjs evvm:deploy
cli_deploy_run(files, instanceId, addr, t) ==
    IF files[instanceId] = NoFile
    THEN [files |-> files, error |-> ErrNotFound, ran |-> <<>>]
    ELSE LET instance == files[instanceId]
             deployedInstance == EVVMPlugin_deployContract(instance, addr, t)
         IN [files |-> WriteFile(files, instanceId, deployedInstance, t),
             error |-> ErrNone, ran |-> <<"deploy">>]

cli_deploy ==
    /\ cmds < MaxCmds
    /\ \E instanceId \in Ids, addr \in ContractAddrs :
        LET r == cli_deploy_run(cliFiles, instanceId, addr, clock)
        IN /\ cliFiles' = r.files
           /\ lastCmd' = Cmd("deploy", "cli", instanceId, instanceId, FALSE, "",
                             r.error, r.ran)
    /\ cmds' = cmds + 1
    /\ UNCHANGED <<evvmFiles, evvmLogs, evvmResults, cliResults, clock>>
    /\ UNCHANGED contractVars
    /\ UNCHANGED submitVars
    /\ UNCHANGED runVars
    /\ UNCHANGED wrapper

\* the benchmarks a mode option selects, in the order they run
ModesRun(mode) ==
    (IF mode = "all" \/ mode = "serial" THEN <<"serial">> ELSE <<>>)
    \o (IF mode = "all" \/ mode = "parallel" THEN <<"parallel">> ELSE <<>>)
    \o (IF mode = "all" \/ mode = "evvm-async" THEN <<"evvm-async">> ELSE <<>>)

\* cli.cjs benchmark, hardhat3-plugin.mjs evvm:benchmark
cli_benchmark_run(files, results, instanceId, mode) ==
    IF files[instanceId] = NoFile
    THEN [results |-> results, error |-> ErrNotFound, ran |-> <<>>]
    ELSE IF JsonStringifyThrows(PluginResultTypes)
    THEN [results |-> results, error |-> ErrBigInt, ran |-> ModesRun(mode)]
    ELSE [results |-> results \cup {files[instanceId].id}, error |-> ErrNone,
          ran |-> ModesRun(mode)]

cli_benchmark ==
    /\ cmds < MaxCmds
    /\ \E instanceId \in Ids, mode \in Modes, demo \in BOOLEAN :
        LET r == cli_benchmark_run(cliFiles, cliResults, instanceId, mode)
        IN /\ cliResults' = r.results
           /\ lastCmd' = Cmd("benchmark", "cli", instanceId, instanceId, demo, mode,
                             r.error, r.ran)
    /\ cmds' = cmds + 1
    /\ UNCHANGED <<evvmFiles, evvmLogs, evvmResults, cliFiles, clock>>
    /\ UNCHANGED contractVars
    /\ UNCHANGED submitVars
    /\ UNCHANGED runVars
    /\ UNCHANGED wrapper

\* cli.cjs list, hardhat3-plugin.mjs evvm:list: reads the instance files
cli_list ==
    /\ cmds < MaxCmds
    /\ lastCmd' = Cmd("list", "cli", NoArg, 0, FALSE, "", ErrNone, <<>>)
    /\ cmds' = cmds + 1
    /\ UNCHANGED <<evvmFiles, evvmLogs, evvmResults, cliFiles, cliResults, clock>>
    /\ UNCHANGED contractVars
    /\ UNCHANGED submitVars
    /\ UNCHANGED runVars
    /\ UNCHANGED wrapper

\* cli.cjs demo, hardhat3-plugin.mjs evvm:demo: an instance that lives in memory
\* only; ran lists the statuses it goes through, then the benchmarks
cli_demo ==
    /\ cmds < MaxCmds
    /\ \E id \in Ids, addr \in ContractAddrs :
        LET instance == EVVMPlugin_initInstance(id, clock)
            deployedInstance == EVVMPlugin_deployContract(instance, addr, clock)
        IN lastCmd' = Cmd("demo", "cli", NoArg, 0, FALSE, "all", ErrNone,
                          <<instance.status, deployedInstance.status>> \o ModesRun("all"))
    /\ cmds' = cmds + 1
    /\ UNCHANGED <<evvmFiles, evvmLogs, evvmResults, cliFiles, cliResults, clock>>
    /\ UNCHANGED contractVars
    /\ UNCHANGED submitVars
    /\ UNCHANGED runVars
    /\ UNCHANGED wrapper

\* time passes between two commands
Tick ==
    /\ clock < MaxClock
    /\ clock' = clock + 1
    /\ UNCHANGED <<evvmFiles, evvmLogs, evvmResults, cliFiles, cliResults, cmds, lastCmd>>
    /\ UNCHANGED contractVars
    /\ UNCHANGED submitVars
    /\ UNCHANGED runVars
    /\ UNCHANGED wrapper

InitTasks ==
    /\ evvmFiles = [i \in Ids |-> NoFile]
    /\ evvmLogs = {}
    /\ evvmResults = {}
    /\ cliFiles = [i \in Ids |-> NoFile]
    /\ cliResults = {}
    /\ clock = 0
    /\ cmds = 0
    /\ lastCmd = Cmd("none", "", NoArg, 0, FALSE, "", ErrNone, <<>>)

IdleTasks == InitTasks

\* no contract is involved in Part III
IdleContract ==
    /\ contract = "Counter"
    /\ deployer = 1
    /\ now = 0
    /\ storage = Counter_constructor(deployer, now)
    /\ lastTx = [op |-> "constructor", sender |-> deployer, arg |-> 0, status |-> "ok"]
    /\ txs = 0
    /\ decremented = FALSE

(***************************************************************************)
(* Part IV: the benchmark functions and the parallel executors             *)
(* (tasks/evvm-benchmark.ts runBenchmark and runEVVMBenchmark,             *)
(* EVVMPlugin.runBenchmark, ArcologyClient.runBenchmark,                   *)
(* EVVMClient.executeParallelTransactions).  A call is a sequence of       *)
(* steps: JavaScript runs one callback at a time, so a step is what runs   *)
(* between two awaits, and the simulated delays end in any order.          *)
(***************************************************************************)
\* a transaction without a nonce field (undefined)
NoNonce == -1
\* the nonces a caller puts on a transaction
Nonces == {NoNonce, 0, 1}
\* Math.random() in the gas formula: its least and its greatest outcome
GasNoise == {0, 1}
\* BigInt(21000 + ...) in serial mode, BigInt(18000 + ...) in the other modes
BaseGas(m) == IF m = "serial" THEN 21000 ELSE 18000

Executors == {"runBenchmark", "runEVVMBenchmark", "EVVMPlugin", "ArcologyClient", "EVVMClient"}
Concurrencies == (1..MaxConcurrency) \cup {DefaultConcurrency}

Min(a, b) == IF a < b THEN a ELSE b
\* Math.ceil(a / b) for b > 0
Ceil(a, b) == (a + b - 1) \div b
\* Math.floor(n * percent / 100) for the percentages 0.95, 0.05, 0.97, 0.03
FloorPercent(n, percent) == (n * percent) \div 100

\* Array.from({ length: n }, (_, i) => i), as the positions 1..n
Positions(n) == [i \in 1..n |-> i]

Max(a, b) == IF a > b THEN a ELSE b
\* how slice reads an index: a negative one counts from the end, and the
\* result is clamped to 0 .. length
RelativeIndex(len, k) == IF k < 0 THEN Max(len + k, 0) ELSE Min(k, len)
\* array.slice(start, end): the elements of index start .. end-1 (from 0)
slice(array, start, end) ==
    SubSeq(array, RelativeIndex(Len(array), start) + 1, RelativeIndex(Len(array), end))

\* for (let i = 0; i < array.length; i += size) chunks.push(array.slice(i, i + size))
RECURSIVE ChunkLoop(_, _, _)
ChunkLoop(array, size, i) ==
    IF i < Len(array)
    THEN <<slice(array, i, i + size)>> \o ChunkLoop(array, size, i + size)
    ELSE <<>>

\* bug: the loop advances by size + 1 and loses one element between two chunks
chunkArray_skips(array, size) == ChunkLoop(array, size + 1, 0)

\* EVVMClient.chunkArray
chunkArray(array, size) == ChunkLoop(array, size, 0)

\* ArcologyClient.createConflictFreeGroups
createConflictFreeGroups(array, groupSize) == ChunkLoop(array, groupSize, 0)

\* bug: the last chunk is left out
runBenchmark_chunks_short(list, c) ==
    LET all == ChunkLoop(list, c, 0) IN SubSeq(all, 1, Len(all) - 1)

\* evvm-benchmark.ts runBenchmark, parallel mode: the loop that fills chunks
runBenchmark_chunks(list, c) == ChunkLoop(list, c, 0)

\* EVVMPlugin.runBenchmark, parallel mode: batchSize = Math.min(txCount,
\* defaultConcurrency), batches = Math.ceil(txCount / batchSize), which is NaN
\* for txCount = 0 so that the loop is not entered
EVVMPlugin_batches(txCount, defaultConcurrency) ==
    LET batchSize == Min(txCount, defaultConcurrency)
        batches == IF batchSize = 0 THEN 0 ELSE Ceil(txCount, batchSize)
    IN [b \in 1..batches |->
           LET batchTxs == Min(batchSize, txCount - (b - 1) * batchSize)
           IN [i \in 1..batchTxs |-> (b - 1) * batchSize + i]]

\* EVVMPlugin.runBenchmark, evvm-async mode: all promises at once
EVVMPlugin_async(txCount) == <<Positions(txCount)>>

\* the chunks a call cuts its list into
ChunksOf(ex, m, n, c) ==
    IF m = "serial" THEN <<>>
    ELSE IF ex = "runBenchmark" THEN runBenchmark_chunks(Positions(n), c)
    ELSE IF ex = "ArcologyClient" THEN createConflictFreeGroups(Positions(n), c)
    ELSE IF ex = "EVVMClient" THEN chunkArray(Positions(n), c)
    ELSE IF m = "parallel" THEN EVVMPlugin_batches(n, c)
    ELSE EVVMPlugin_async(n)

\* the loop of the call awaits one transaction after the other
IsSerialLoop(ex, m) == m = "serial" \/ ex = "runEVVMBenchmark"

\* the modes each function is called with
ModesOf(ex) ==
    IF ex = "runBenchmark" THEN {"serial", "parallel"}
    ELSE IF ex = "runEVVMBenchmark" THEN {"evvm-async"}
    ELSE IF ex = "EVVMPlugin" THEN {"serial", "parallel", "evvm-async"}
    ELSE IF ex = "ArcologyClient" THEN {"serial"}
    ELSE {"parallel"}

\* the functions whose transactions succeed or fail by Math.random()
CanFail(ex) == ex \in {"ArcologyClient", "EVVMClient"}

Elements(seq) == {seq[i] : i \in 1..Len(seq)}

\* the members of a set of records, ordered by their tx field
RECURSIVE InOrder(_)
InOrder(S) ==
    IF S = {} THEN <<>>
    ELSE LET first == CHOOSE x \in S : \A y \in S : x.tx <= y.tx
         IN <<first>> \o InOrder(S \ {first})

RECURSIVE SumGas(_)
SumGas(seq) == IF seq = <<>> THEN 0 ELSE Head(seq).gas + SumGas(Tail(seq))

Count(seq, wanted) == Cardinality({i \in 1..Len(seq) : seq[i].success = wanted})

IdleRun == [phase |-> "idle"]

\* milliseconds that Date.now() counts between the start and the end of a
\* call apart from the delays it awaits: none, or the clock ticks once
Ticks == {0, 1}

\* a / b on JavaScript numbers, for a >= 0 and b >= 0, by the kind of its
\* value: a zero divisor gives NaN (0 / 0) or Infinity, never an exception
Divide(a, b) ==
    IF b = 0 THEN (IF a = 0 THEN "NaN" ELSE "Infinity")
    ELSE IF a = 0 THEN "zero" ELSE "positive"

\* x || 1
OrOne(x) == IF x = 0 THEN 1 ELSE x

\* the result record of evvm-benchmark.ts and of EVVMPlugin.runBenchmark;
\* time is endTime - startTime, in units of one awaited delay
BenchmarkResult(m, txCount, successfulTxs, totalGasUsed, errors, time) ==
    [mode |-> m,
     totalTransactions |-> txCount,
     successfulTransactions |-> successfulTxs,
     failedTransactions |-> txCount - successfulTxs,
     totalTimeMs |-> time,
     averageLatencyMs |-> Divide(time, successfulTxs),
     tps |-> Divide(successfulTxs, time),
     totalGasUsed |-> totalGasUsed,
     averageGasPerTx |-> totalGasUsed \div OrOne(successfulTxs),
     errors |-> errors,
     parallelGroups |-> NoNonce,
     \* observations: what the three quotients were divided by
     latencyDivisor |-> successfulTxs,
     tpsDivisor |-> time,
     gasDivisor |-> OrOne(successfulTxs)]

\* evvm-benchmark.ts runBenchmark with config.demo
runBenchmark_demo(m, txCount, gas) ==
    [mode |-> m,
     totalTransactions |-> txCount,
     successfulTransactions |-> FloorPercent(txCount, 95),
     failedTransactions |-> FloorPercent(txCount, 5),
     totalGasUsed |-> gas * txCount,
     errors |-> <<>>,
     parallelGroups |-> NoNonce]

\* evvm-benchmark.ts runEVVMBenchmark with config.demo
runEVVMBenchmark_demo(txCount, gas) ==
    [mode |-> "evvm-async",
     totalTransactions |-> txCount,
     successfulTransactions |-> FloorPercent(txCount, 97),
     failedTransactions |-> FloorPercent(txCount, 3),
     totalGasUsed |-> gas * txCount,
     errors |-> <<>>,
     parallelGroups |-> NoNonce]

\* ArcologyClient.calculateBenchmarkResult
calculateBenchmarkResult(m, res, totalTransactions) ==
    [mode |-> m,
     totalTransactions |-> totalTransactions,
     successfulTransactions |-> Count(res, TRUE),
     failedTransactions |-> Count(res, FALSE),
     \* every result's executionTime spans one awaited delay
     totalTimeMs |-> Len(res),
     averageLatencyMs |-> Divide(Len(res), Len(res)),
     tps |-> Divide(Count(res, TRUE), Len(res)),
     totalGasUsed |-> SumGas(res),
     averageGasPerTx |-> SumGas(res) \div OrOne(Count(res, TRUE)),
     latencyDivisor |-> Len(res),
     tpsDivisor |-> Len(res),
     gasDivisor |-> OrOne(Count(res, TRUE)),
     errors |-> [i \in 1..Count(res, FALSE) |-> "error"],
     parallelGroups |-> IF m = "parallel" THEN Ceil(totalTransactions, ArcologyGroupSize)
                        ELSE 1]

\* EVVMClient.executeParallelTransactions: `nonce: tx.nonce || index`, index
\* being the transaction's index in its chunk; 0 and undefined are falsy
asyncNonce(nonce, index) == IF nonce = NoNonce \/ nonce = 0 THEN index ELSE nonce

\* what a call's local variables hold when it is entered
Locals(ex, m, list, c, tick) ==
    [phase |-> IF IsSerialLoop(ex, m) THEN "serial" ELSE "parallel",
     tick |-> tick,
     executor |-> ex, mode |-> m, demo |-> FALSE,
     transactions |-> list, concurrency |-> c,
     chunks |-> ChunksOf(ex, m, Len(list), c),
     chunkIndex |-> 0,
     inFlight |-> {},
     settled |-> {},
     results |-> <<>>,
     successfulTxs |-> 0, totalGasUsed |-> 0, errors |-> <<>>,
     \* observations, not variables of the program:
     started |-> [p \in 1..Len(list) |-> 0],         \* the chunk a transaction started in
     completed |-> {},                              \* the delays that have ended
     counted |-> [p \in 1..Len(list) |-> 0],         \* how often successfulTxs++ ran for it
     nonces |-> [p \in 1..Len(list) |-> NoNonce],    \* the nonce it was executed with
     gasDrawn |-> 0,                                \* the sum of the gas values drawn
     benchmarks |-> <<>>]

\* chunk.map(...): every transaction of the next chunk starts its delay
StartChunk(r) ==
    LET k == r.chunkIndex + 1
        chunk == r.chunks[k]
        IndexIn(p) == (CHOOSE i \in 1..Len(chunk) : chunk[i] = p) - 1
    IN [r EXCEPT !.chunkIndex = k,
                 !.inFlight = r.inFlight \cup Elements(chunk),
                 !.settled = {},
                 !.started = [p \in DOMAIN r.started |->
                                 IF p \in Elements(chunk) THEN k ELSE r.started[p]],
                 !.nonces = [p \in DOMAIN r.nonces |->
                                IF p \in Elements(chunk) /\ r.executor = "EVVMClient"
                                THEN asyncNonce(r.transactions[p], IndexIn(p))
                                ELSE r.nonces[p]]]

\* the serial loop starts the delay of its next transaction
StartSerialTx(r) ==
    LET p == Cardinality(r.completed) + 1
    IN [r EXCEPT !.inFlight = {p},
                 !.started = [r.started EXCEPT ![p] = 1]]

\* ArcologyClient.executeParallel, entered with the same transactions
EnterParallel(r) ==
    [r EXCEPT !.phase = "parallel", !.mode = "parallel",
              !.chunks = ChunksOf(r.executor, "parallel", Len(r.transactions), r.concurrency),
              !.chunkIndex = 0, !.results = <<>>, !.settled = {},
              !.started = [p \in DOMAIN r.started |-> 0],
              !.completed = {}]

\* endTime - startTime: the awaits of the call follow one another, one per
\* transaction of a serial loop and one per chunk of a parallel one
totalTime(r) ==
    r.tick + (IF r.phase = "serial" THEN Cardinality(r.completed) ELSE r.chunkIndex)

\* the loop is over: the function builds its result and returns
Return(r) ==
    IF r.executor = "ArcologyClient"
    THEN [r EXCEPT !.phase = "done",
                   !.benchmarks = Append(r.benchmarks,
                       calculateBenchmarkResult(r.mode, r.results, Len(r.transactions)))]
    ELSE IF r.executor = "EVVMClient"
    THEN [r EXCEPT !.phase = "done"]
    ELSE [r EXCEPT !.phase = "done",
                   !.benchmarks = Append(r.benchmarks,
                       BenchmarkResult(r.mode, Len(r.transactions), r.successfulTxs,
                                       r.totalGasUsed, r.errors, totalTime(r)))]

\* for (const chunk of chunks): the next chunk starts, or the loop is over
Continue(r) ==
    IF r.chunkIndex < Len(r.chunks) THEN StartChunk(r) ELSE Return(r)

\* the serial loop goes on or is over; ArcologyClient.runBenchmark goes on with
\* executeParallel after executeSerial
ContinueSerial(r) ==
    IF Cardinality(r.completed) < Len(r.transactions) THEN StartSerialTx(r)
    ELSE IF r.executor = "ArcologyClient" THEN Continue(EnterParallel(Return(r)))
    ELSE Return(r)

\* the call runs up to its first await
Begin(ex, m, list, c, tick) ==
    LET r == Locals(ex, m, list, c, tick)
    IN IF r.phase = "serial" THEN ContinueSerial(r) ELSE Continue(r)

\* what runs when the delay of transaction p has ended: the rest of the loop
\* body (serial) or of the chunk's callback (parallel)
Callback(r, p, success, gas) ==
    LET res == [tx |-> p, success |-> success, gas |-> IF success THEN gas ELSE 0,
                parallelGroup |-> r.chunkIndex - 1]
        r1 == [r EXCEPT !.inFlight = r.inFlight \ {p},
                        !.completed = r.completed \cup {p},
                        !.gasDrawn = r.gasDrawn + res.gas]
    IN IF r.executor \in {"runBenchmark", "runEVVMBenchmark"}
          \/ (r.executor = "EVVMPlugin" /\ r.phase = "serial")
       THEN \* successfulTxs++; totalGasUsed += BigInt(...)
            [r1 EXCEPT !.successfulTxs = r.successfulTxs + 1,
                       !.totalGasUsed = r.totalGasUsed + gas,
                       !.counted = [r.counted EXCEPT ![p] = r.counted[p] + 1],
                       !.settled = r.settled \cup {res}]
       ELSE IF r.phase = "serial"
       THEN \* ArcologyClient.executeSerial: results.push({...})
            [r1 EXCEPT !.results = Append(r.results, res)]
       ELSE \* the promise settles to the value the callback returns
            [r1 EXCEPT !.settled = r.settled \cup {res}]

\* results.forEach of EVVMPlugin.runBenchmark: every fulfilled promise counts
EVVMPlugin_forEach(r) ==
    LET values == InOrder(r.settled)
    IN [r EXCEPT !.successfulTxs = r.successfulTxs + Count(values, TRUE),
                 !.totalGasUsed = r.totalGasUsed + SumGas(values),
                 !.errors = r.errors \o [i \in 1..Count(values, FALSE) |-> "error"],
                 !.counted = [p \in DOMAIN r.counted |->
                                 IF \E v \in r.settled : v.tx = p /\ v.success
                                 THEN r.counted[p] + 1 ELSE r.counted[p]]]

\* what runs when `await Promise.all(promises)` (Promise.allSettled in the
\* plugin) resumes: the chunk's results are taken in the order of the chunk
AfterChunk(r) ==
    IF r.executor = "EVVMPlugin" THEN Continue(EVVMPlugin_forEach(r))
    ELSE IF CanFail(r.executor)
    THEN Continue([r EXCEPT !.results = r.results \o InOrder(r.settled)])
    ELSE Continue(r)

\* bug: the loop goes on without awaiting the chunk's promises
awaitPromiseAll_none(r) == TRUE

\* await Promise.all(promises): resumes when every promise of the chunk has settled
awaitPromiseAll(r) == r.inFlight = {}

OtherThanRun ==
    <<contract, storage, now, lastTx, txs, decremented, deployer, pending, submitted, count0,
      evvmFiles, evvmLogs, evvmResults, cliFiles, cliResults, clock, cmds, lastCmd, wrapper, loop>>

\* a benchmark function or a parallel executor is called
StartRun ==
    /\ run.phase = "idle"
    /\ \E ex \in Executors, c \in Concurrencies, n \in 0..MaxTxCount, tick \in Ticks :
        \E m \in ModesOf(ex), list \in [1..n -> Nonces] :
            /\ ex # "EVVMClient" => \A i \in 1..n : list[i] = NoNonce
            /\ run' = Begin(ex, m, list, c, tick)
    /\ UNCHANGED OtherThanRun

\* evvm-benchmark.ts with --demo: the function returns made-up figures at once
DemoRun ==
    /\ run.phase = "idle"
    /\ \E ex \in {"runBenchmark", "runEVVMBenchmark"}, c \in Concurrencies,
          n \in 0..MaxTxCount, noise \in GasNoise :
        \E m \in ModesOf(ex) :
            LET gas == BaseGas(m) + noise
            IN run' = [Locals(ex, m, [i \in 1..n |-> NoNonce], c, 0) EXCEPT
                          !.phase = "done", !.demo = TRUE,
                          !.benchmarks =
                              <<IF ex = "runBenchmark" THEN runBenchmark_demo(m, n, gas)
                                ELSE runEVVMBenchmark_demo(n, gas)>>]
    /\ UNCHANGED OtherThanRun

\* the delay of the serial loop's transaction ends
SerialTx ==
    /\ run.phase = "serial"
    /\ \E p \in run.inFlight, success \in BOOLEAN, noise \in GasNoise :
        /\ success \/ CanFail(run.executor)
        /\ CanFail(run.executor) => noise = 0
        /\ run' = ContinueSerial(Callback(run, p, success, BaseGas(run.mode) + noise))
    /\ UNCHANGED OtherThanRun

\* the delay of one transaction of the running chunk ends
Complete ==
    /\ run.phase = "parallel"
    /\ \E p \in run.inFlight, success \in BOOLEAN, noise \in GasNoise :
        /\ success \/ CanFail(run.executor)
        /\ CanFail(run.executor) => noise = 0
        /\ run' = Callback(run, p, success, BaseGas(run.mode) + noise)
    /\ UNCHANGED OtherThanRun

\* every promise of the chunk has settled: the loop goes on
NextChunk ==
    /\ run.phase = "parallel"
    /\ awaitPromiseAll(run)
    /\ run' = AfterChunk(run)
    /\ UNCHANGED OtherThanRun

\* the integer concurrency values tried: negative, 0, and the usual ones
Sizes == (-1..MaxConcurrency) \cup {DefaultConcurrency}
\* the functions that hold the chunking loop
ChunkingFunctions == {"runBenchmark", "chunkArray", "createConflictFreeGroups"}
\* runComprehensiveBenchmark: options.concurrency || defaultConcurrency
comprehensiveConcurrency(c) == IF c = 0 THEN DefaultConcurrency ELSE c

IdleLoop == [phase |-> "idle"]

OtherThanLoop ==
    <<contract, storage, now, lastTx, txs, decremented, deployer, pending, submitted, count0,
      evvmFiles, evvmLogs, evvmResults, cliFiles, cliResults, clock, cmds, lastCmd, run,
      wrapper>>

\* the loop is entered: runBenchmark gets parseInt(taskArgs.concurrency), the
\* two clients get the concurrency of runComprehensiveBenchmark
EnterChunkLoop ==
    /\ loop.phase = "idle"
    /\ \E f \in ChunkingFunctions, n \in 0..MaxTxCount, c \in Sizes :
        loop' = [phase |-> "looping", function |-> f, array |-> Positions(n),
                 size |-> IF f = "runBenchmark" THEN c ELSE comprehensiveConcurrency(c),
                 i |-> 0, chunks |-> <<>>, iterations |-> 0]
    /\ UNCHANGED OtherThanLoop

\* one iteration: chunks.push(array.slice(i, i + size)); i += size
ChunkIteration ==
    /\ loop.phase = "looping"
    /\ loop.i < Len(loop.array)
    /\ loop.iterations < MaxIterations
    /\ loop' = [loop EXCEPT !.chunks = Append(loop.chunks,
                                              slice(loop.array, loop.i, loop.i + loop.size)),
                            !.i = loop.i + loop.size,
                            !.iterations = loop.iterations + 1]
    /\ UNCHANGED OtherThanLoop

\* the test i < array.length fails: the loop is over
ChunkLoopEnd ==
    /\ loop.phase = "looping"
    /\ ~(loop.i < Len(loop.array))
    /\ loop' = [loop EXCEPT !.phase = "ended"]
    /\ UNCHANGED OtherThanLoop

InitRuns == run = IdleRun /\ loop = IdleLoop

(***************************************************************************)
(* Part V: hardhat3-wrapper.mjs.                                           *)
(***************************************************************************)
\* the words tried as command line arguments
Words == {"evvm:init", "evvm:deploy", "evvm:benchmark", "evvm:list", "evvm:demo",
          "evvm:status", "list", "my-instance", "--hardhat"}
\* args[0].startsWith('evvm:') over these words
StartsWithEvvm(word) ==
    word \in {"evvm:init", "evvm:deploy", "evvm:benchmark", "evvm:list", "evvm:demo",
              "evvm:status"}

commandMap ==
    [w \in {"evvm:init", "evvm:deploy", "evvm:benchmark", "evvm:list", "evvm:demo"} |->
        CASE w = "evvm:init" -> "init"
          [] w = "evvm:deploy" -> "deploy"
          [] w = "evvm:benchmark" -> "benchmark"
          [] w = "evvm:list" -> "list"
          [] w = "evvm:demo" -> "demo"]

\* no exit code yet
NoExit == -1
\* the code of the child's 'close' event when a signal ended it (null)
Killed == -2
\* how the CLI process can end
CloseCodes == {0, 1, Killed}
\* process.exit(code): null leaves the exit code at its default of 0
process_exit(code) == IF code = Killed THEN 0 ELSE code

IdleWrapper ==
    [phase |-> "idle", args |-> <<>>, env |-> FALSE, spawned |-> FALSE, child |-> <<>>,
     closeCode |-> NoExit, exitCode |-> NoExit]

\* process.env.HARDHAT_PLUGIN === 'true' || args.includes('--hardhat')
isHardhatCall(args, env) == env \/ "--hardhat" \in Elements(args)

\* bug: the arguments after the command are dropped
hardhat3_wrapper_run_noArgs(args, env) ==
    LET w == [IdleWrapper EXCEPT !.args = args, !.env = env]
    IN IF isHardhatCall(args, env) \/ Len(args) = 0
       THEN [w EXCEPT !.phase = "exited", !.exitCode = 0]
       ELSE IF StartsWithEvvm(args[1])
       THEN IF args[1] \in DOMAIN commandMap
            THEN [w EXCEPT !.phase = "running", !.spawned = TRUE,
                           !.child = <<commandMap[args[1]]>>]
            ELSE [w EXCEPT !.phase = "exited", !.exitCode = 1]
       ELSE [w EXCEPT !.phase = "running", !.spawned = TRUE, !.child = args]

\* the script up to the end of its synchronous part
hardhat3_wrapper_run(args, env) ==
    LET w == [IdleWrapper EXCEPT !.args = args, !.env = env]
    IN IF isHardhatCall(args, env) \/ Len(args) = 0
       THEN \* the help text, process.exit(0)
            [w EXCEPT !.phase = "exited", !.exitCode = 0]
       ELSE IF StartsWithEvvm(args[1])
       THEN IF args[1] \in DOMAIN commandMap
            THEN \* spawn('node', [cliPath, cliCommand, ...args.slice(1)])
                 [w EXCEPT !.phase = "running", !.spawned = TRUE,
                           !.child = <<commandMap[args[1]]>> \o Tail(args)]
            ELSE [w EXCEPT !.phase = "exited", !.exitCode = 1]
       ELSE \* spawn('node', [cliPath, ...args])
            [w EXCEPT !.phase = "running", !.spawned = TRUE, !.child = args]

RECURSIVE SeqsUpTo(_, _)
SeqsUpTo(S, n) ==
    IF n = 0 THEN {<<>>}
    ELSE LET shorter == SeqsUpTo(S, n - 1)
         IN shorter \cup {Append(s, x) : s \in shorter, x \in S}

OtherThanWrapper ==
    <<contract, storage, now, lastTx, txs, decremented, deployer, pending, submitted, count0,
      evvmFiles, evvmLogs, evvmResults, cliFiles, cliResults, clock, cmds, lastCmd, run, loop>>

\* node hardhat3-wrapper.mjs <args>
hardhat3_wrapper ==
    /\ wrapper.phase = "idle"
    /\ \E args \in SeqsUpTo(Words, MaxArgs), env \in BOOLEAN :
        wrapper' = hardhat3_wrapper_run(args, env)
    /\ UNCHANGED OtherThanWrapper

\* child.on('close', (code) => process.exit(code))
child_close ==
    /\ wrapper.phase = "running"
    /\ \E code \in CloseCodes :
        wrapper' = [wrapper EXCEPT !.phase = "exited", !.closeCode = code,
                                   !.exitCode = process_exit(code)]
    /\ UNCHANGED OtherThanWrapper

InitWrapper == wrapper = IdleWrapper

\* nothing of Parts IV and V is involved in Parts I to III
IdleRuns == InitRuns /\ InitWrapper

(***************************************************************************)
(* Specifications.                                                         *)
(***************************************************************************)
Init == InitContract /\ IdleSubmit /\ IdleTasks /\ IdleRuns
Next ==
    \/ increment
    \/ incrementBy
    \/ decrement
    \/ reset
    \/ batchIncrement
    \/ fastIncrement
    \/ parallelIncrement
    \/ concurrentIncrement
    \/ NextBlock
Spec == Init /\ [][Next]_vars

InitConcurrent == InitSubmit /\ IdleTasks /\ IdleRuns
NextConcurrent == Mine \/ NextBlock
SpecConcurrent == InitConcurrent /\ [][NextConcurrent]_vars

InitCommands == IdleContract /\ IdleSubmit /\ InitTasks /\ IdleRuns
NextCommands ==
    \/ evvm_init
    \/ evvm_deploy
    \/ evvm_benchmark
    \/ cli_init
    \/ cli_deploy
    \/ cli_benchmark
    \/ cli_list
    \/ cli_demo
    \/ Tick
SpecCommands == InitCommands /\ [][NextCommands]_vars

InitRun == IdleContract /\ IdleSubmit /\ IdleTasks /\ InitRuns /\ InitWrapper
NextRun ==
    \/ StartRun
    \/ DemoRun
    \/ SerialTx
    \/ Complete
    \/ NextChunk
SpecRun == InitRun /\ [][NextRun]_vars

NextWrapper ==
    \/ hardhat3_wrapper
    \/ child_close
SpecWrapper == InitRun /\ [][NextWrapper]_vars

NextChunkLoop ==
    \/ EnterChunkLoop
    \/ ChunkIteration
    \/ ChunkLoopEnd
SpecChunkLoop == InitRun /\ [][NextChunkLoop]_vars

(***************************************************************************)
(* Properties.                                                             *)
(***************************************************************************)
IsParallel == contract = "ParallelCounter"
\* the step is a transaction that called op
TxStep(op) == txs' = txs + 1 /\ lastTx'.op = op
Msg(text) == IF contract = "Counter" THEN "Counter: " \o text ELSE "ParallelCounter: " \o text

\* C1 (as stated): once all concurrently submitted Counter transactions are
\* mined, in whatever order, getCount() is the initial count plus the sum of
\* their amounts.
C1_FinalCountIsSum ==
    pending = {} => getCount = count0 + SumAmounts(submitted)

\* C1 (amended): whenever the initial count plus the sum of all submitted
\* amounts fits in a storage word, getCount() is at every moment the initial
\* count plus the amounts of the transactions mined so far, so the final
\* count is the initial count plus the whole sum in every order.
C1_CountIsSumWhenItFits ==
    count0 + SumAmounts(submitted) <= MaxUint
        => getCount = count0 + SumAmounts(submitted \ pending)

C1_Witness ==
    /\ pending = {}
    /\ count0 = 5
    /\ \E a, b, c \in submitted :
        a.op = "increment" /\ b.op = "incrementBy" /\ c.op = "batchIncrement"
    /\ getCount = count0 + SumAmounts(submitted)
    /\ getCount > count0 + 3

\* C2: decrement() at count 0 reverts with 'count cannot be negative' and
\* changes no storage; getCount() is never below 0.
C2_DecrementAtZeroReverts ==
    /\ [](getCount >= 0)
    /\ [][(TxStep("decrement") /\ getCount = 0)
            => (lastTx'.status = Msg("count cannot be negative") /\ storage' = storage)]_vars

C2_Witness ==
    /\ lastTx.op = "decrement"
    /\ lastTx.status = Msg("count cannot be negative")
    /\ getCount = 0
    /\ txs >= 2

\* C3: reset() succeeds exactly for the deployer; for any other caller it
\* reverts with 'caller is not the owner' and changes no storage; the owner is
\* always the deployer.
C3_ResetOnlyOwner ==
    /\ [](getOwner = deployer)
    /\ [][TxStep("reset")
            => IF lastTx'.sender = deployer
               THEN lastTx'.status = "ok" /\ getCount' = 0
               ELSE /\ lastTx'.status = Msg("caller is not the owner")
                    /\ storage' = storage]_vars

C3_Witness ==
    /\ lastTx.op = "reset"
    /\ lastTx.sender # deployer
    /\ lastTx.status = Msg("caller is not the owner")
    /\ getCount > 0
    /\ IsParallel => getTotalIncrements > 0

\* the argument is inside the bound of the guarded adder
InBound(op, arg) ==
    IF op = "batchIncrement" THEN 1 <= arg /\ arg <= MaxBatch
    ELSE IF IsParallel THEN 1 <= arg /\ arg <= MaxAmount
    ELSE 1 <= arg

\* the transaction added exactly arg
AddsExactly(arg) ==
    /\ lastTx'.status = "ok"
    /\ getCount' = getCount + arg
    /\ IsParallel => getTotalIncrements' = getTotalIncrements + arg

RevertsUnchanged == lastTx'.status # "ok" /\ storage' = storage

\* the sums stay inside the storage word
Fits(arg) ==
    /\ getCount + arg <= MaxUint
    /\ IsParallel => getTotalIncrements + arg <= MaxUint

\* C4 (as stated): batchIncrement and incrementBy add exactly their argument
\* when it is inside the bound, and otherwise revert with no change.
C4_GuardedAdders ==
    [][(TxStep("batchIncrement") \/ TxStep("incrementBy"))
         => IF InBound(lastTx'.op, lastTx'.arg) THEN AddsExactly(lastTx'.arg)
            ELSE RevertsUnchanged]_vars

\* C4 (amended): they add exactly their argument when it is inside the bound
\* and the sum fits in the storage word, and otherwise revert with no change.
C4_GuardedAddersWhenItFits ==
    [][(TxStep("batchIncrement") \/ TxStep("incrementBy"))
         => IF InBound(lastTx'.op, lastTx'.arg) /\ Fits(lastTx'.arg)
            THEN AddsExactly(lastTx'.arg)
            ELSE RevertsUnchanged]_vars

C4_Witness ==
    /\ IsParallel
    /\ lastTx.op = "incrementBy"
    /\ lastTx.arg = MaxAmount
    /\ lastTx.status = "ok"
    /\ getCount = MaxAmount + MaxBatch
    /\ getTotalIncrements = getCount

\* C5: in ParallelCounter, as long as no decrement() has succeeded,
\* getTotalIncrements() equals getCount().
C5_TotalEqualsCount ==
    (IsParallel /\ ~decremented) => getTotalIncrements = getCount

C5_Witness ==
    /\ IsParallel
    /\ ~decremented
    /\ lastTx.op = "fastIncrement"
    /\ txs >= 3
    /\ getCount > MaxBatch
    /\ getTotalIncrements = getCount

\* C6: from every state fastIncrement() does what increment() does: both add
\* 1 and stamp lastIncrement, or both revert.
C6_FastIncrementIsIncrement ==
    \A sender \in Addrs :
        LET f == IF IsParallel THEN ParallelCounter_fastIncrement(storage, sender, now)
                 ELSE Counter_fastIncrement(storage, sender, now)
            i == IF IsParallel THEN ParallelCounter_increment(storage, sender, now)
                 ELSE Counter_increment(storage, sender, now)
        IN \/ /\ f.status = "ok" /\ i.status = "ok"
              /\ f.storage = i.storage
              /\ f.storage[SlotCount] = getCount + 1
              /\ f.storage[SlotLastIncrement] = now
              /\ IsParallel => f.storage[SlotTotalIncrements] = getTotalIncrements + 1
           \/ /\ f.status # "ok" /\ i.status # "ok"
              /\ f.storage = storage /\ i.storage = storage

Rank(status) ==
    CASE status = "initialized" -> 0
      [] status = "deployed" -> 1
      [] status \in {"running", "stopped"} -> 2

\* an instance file is created as 'initialized', is never removed, and its
\* status never moves backwards
Forward(f, g) ==
    IF f = NoFile THEN g = NoFile \/ g.status = "initialized"
    ELSE g # NoFile /\ Rank(g.status) >= Rank(f.status)

CmdStep == cmds' = cmds + 1

\* C7: over any sequence of commands every instance starts as 'initialized'
\* and its status only moves forward, initialized -> deployed ->
\* running/stopped; so does the in-memory instance of the demo.
C7_StatusMovesForward ==
    [][/\ \A i \in Ids : Forward(evvmFiles[i], evvmFiles'[i])
       /\ \A i \in Ids : Forward(cliFiles[i], cliFiles'[i])
       /\ (CmdStep /\ lastCmd'.cmd = "demo")
            => SubSeq(lastCmd'.ran, 1, 2) = <<"initialized", "deployed">>]_vars

C7_Witness ==
    /\ lastCmd.cmd = "deploy"
    /\ lastCmd.front = "cli"
    /\ lastCmd.exit = 0
    /\ cliFiles[lastCmd.id].status = "deployed"
    /\ cliFiles[lastCmd.id].lastActivity > cliFiles[lastCmd.id].createdAt
    /\ cmds = 3

\* C8: the evvm:deploy task changes an instance file only when the instance
\* is 'initialized'; for an existing instance of another status it fails with
\* 'is not in initialized state', leaves the instance files as they are and
\* writes no deployment log.
C8_DeployOnlyInitialized ==
    [][(CmdStep /\ lastCmd'.cmd = "deploy" /\ lastCmd'.front = "task")
         => /\ (lastCmd'.id # 0 /\ evvmFiles[lastCmd'.id] # NoFile
                  /\ evvmFiles[lastCmd'.id].status # "initialized")
                 => /\ lastCmd'.error = ErrNotInitialized
                    /\ lastCmd'.exit = 1
                    /\ evvmFiles' = evvmFiles
                    /\ evvmLogs' = evvmLogs
            /\ (evvmFiles' # evvmFiles \/ evvmLogs' # evvmLogs)
                 => evvmFiles[lastCmd'.id].status = "initialized"]_vars

C8_Witness ==
    /\ lastCmd.cmd = "deploy"
    /\ lastCmd.front = "task"
    /\ lastCmd.error = ErrNotInitialized
    /\ evvmFiles[lastCmd.id].status = "deployed"
    /\ evvmFiles[lastCmd.id].contractAddress # ""
    /\ lastCmd.id \in evvmLogs

\* C9: the evvm:benchmark task has run a benchmark or written a results file
\* only for an instance that exists and is 'deployed', also with --demo and
\* without --instance.
C9_BenchmarkOnlyDeployed ==
    /\ (lastCmd.cmd = "benchmark" /\ lastCmd.front = "task" /\ lastCmd.ran # <<>>)
         => /\ lastCmd.id \in Existing(evvmFiles)
            /\ evvmFiles[lastCmd.id].status = "deployed"
    /\ \A i \in evvmResults : i \in Existing(evvmFiles) /\ evvmFiles[i].status = "deployed"

C9_Witness ==
    /\ lastCmd.cmd = "benchmark"
    /\ lastCmd.front = "task"
    /\ lastCmd.demo
    /\ lastCmd.arg = NoArg
    /\ lastCmd.ran = <<"serial", "parallel", "evvm-async">>
    /\ evvmFiles[lastCmd.id].status = "deployed"

FilesOf(front) == IF front = "task" THEN evvmFiles ELSE cliFiles

\* C10: a deploy or benchmark command given the id of an instance that has no
\* instance file fails with 'Instance <id> not found', runs nothing and
\* leaves all instance files, logs and results files as they are.
C10_MissingInstanceFails ==
    [][(CmdStep /\ lastCmd'.cmd \in {"deploy", "benchmark"} /\ lastCmd'.arg # NoArg
          /\ FilesOf(lastCmd'.front)[lastCmd'.arg] = NoFile)
         => /\ lastCmd'.error = ErrNotFound
            /\ lastCmd'.id = lastCmd'.arg
            /\ lastCmd'.exit = 1
            /\ lastCmd'.ran = <<>>
            /\ UNCHANGED <<evvmFiles, evvmLogs, evvmResults, cliFiles, cliResults>>]_vars

C10_Witness ==
    /\ lastCmd.cmd = "deploy"
    /\ lastCmd.front = "cli"
    /\ lastCmd.error = ErrNotFound
    /\ cliFiles[lastCmd.arg] = NoFile
    /\ evvmFiles[lastCmd.arg] # NoFile

RunActive == run.phase # "idle"
RunDone == run.phase = "done"
RECURSIVE Flatten(_)
Flatten(seqs) == IF seqs = <<>> THEN <<>> ELSE Head(seqs) \o Flatten(Tail(seqs))

\* C11: for every transaction list and every concurrency >= 1,
\* EVVMClient.executeParallelTransactions and ArcologyClient.executeParallel
\* cut the list into consecutive chunks of at most `concurrency` transactions
\* that together hold every transaction exactly once, and return exactly one
\* result per transaction, in the order of the input list.
C11_ChunksCoverInOrder ==
    (RunActive /\ run.executor \in {"EVVMClient", "ArcologyClient"} /\ run.mode = "parallel")
        => /\ Flatten(run.chunks) = Positions(Len(run.transactions))
           /\ \A k \in 1..Len(run.chunks) :
                Len(run.chunks[k]) >= 1 /\ Len(run.chunks[k]) <= run.concurrency
           /\ RunDone => /\ Len(run.results) = Len(run.transactions)
                         /\ \A i \in 1..Len(run.results) : run.results[i].tx = i

C11_Witness ==
    /\ RunDone
    /\ run.executor = "EVVMClient"
    /\ Len(run.transactions) = 3
    /\ run.concurrency = 2
    /\ Len(run.chunks) = 2
    /\ Len(run.results) = 3
    /\ ~run.results[2].success
    /\ run.results[3].success

\* the serial mode of the same function for the same transactions, run to its end
RECURSIVE RunSerially(_)
RunSerially(r) ==
    IF r.phase # "serial" THEN r
    ELSE RunSerially(ContinueSerial(Callback(r, CHOOSE p \in r.inFlight : TRUE, TRUE,
                                             BaseGas("serial"))))
SerialBenchmark(ex, list, c) == RunSerially(Begin(ex, "serial", list, c, 0)).benchmarks[1]

\* C12: for every txCount >= 0 and concurrency >= 1 the non-demo parallel
\* runBenchmark (evvm-benchmark.ts, EVVMPlugin) ends, in whatever order its
\* delays end, with the successfulTransactions, failedTransactions and errors
\* of the serial mode for the same txCount: every transaction is counted
\* exactly once and no update of successfulTxs or totalGasUsed is lost.
C12_ParallelCountsAsSerial ==
    (RunActive /\ run.executor \in {"runBenchmark", "EVVMPlugin"}
       /\ run.mode = "parallel" /\ ~run.demo)
        => /\ run.executor = "runBenchmark"
                => /\ run.successfulTxs = Cardinality(run.completed)
                   /\ run.totalGasUsed = run.gasDrawn
           /\ \A p \in DOMAIN run.counted : run.counted[p] <= 1
           /\ RunDone =>
                LET parallel == run.benchmarks[1]
                    serial == SerialBenchmark(run.executor, run.transactions, run.concurrency)
                IN /\ parallel.successfulTransactions = serial.successfulTransactions
                   /\ parallel.failedTransactions = serial.failedTransactions
                   /\ parallel.errors = serial.errors
                   /\ parallel.totalTransactions = Len(run.transactions)
                   /\ \A p \in DOMAIN run.counted : run.counted[p] = 1
                   /\ run.totalGasUsed = run.gasDrawn

C12_Witness ==
    /\ RunDone
    /\ run.executor = "runBenchmark"
    /\ run.mode = "parallel"
    /\ ~run.demo
    /\ run.concurrency = 2
    /\ Len(run.chunks) = 2
    /\ run.benchmarks[1].successfulTransactions = 3
    /\ run.benchmarks[1].failedTransactions = 0
    /\ run.totalGasUsed = 3 * BaseGas("parallel") + 2

\* C13 (as stated): whenever the plugin-based benchmark command reports
\* 'Benchmark completed successfully', its results list is not empty and holds
\* exactly one result per requested mode - all three for mode 'all' - in the
\* order serial, parallel, evvm-async, each named after the mode that made it.
C13_SuccessMeansResults ==
    (lastCmd.cmd = "benchmark" /\ lastCmd.front = "cli" /\ lastCmd.error = ErrNone)
        => /\ lastCmd.ran # <<>>
           /\ lastCmd.ran = IF lastCmd.mode = "all"
                            THEN <<"serial", "parallel", "evvm-async">>
                            ELSE <<lastCmd.mode>>

WrapperRan == wrapper.phase # "idle" /\ wrapper.args # <<>>
\* the wrapper did what the claim says for the first argument it was given
Forwards ==
    IF wrapper.args[1] \in DOMAIN commandMap
    THEN /\ wrapper.spawned
         /\ wrapper.child = <<commandMap[wrapper.args[1]]>> \o Tail(wrapper.args)
         /\ (wrapper.phase = "exited" /\ wrapper.closeCode # Killed)
                => wrapper.exitCode = wrapper.closeCode
    ELSE /\ ~wrapper.spawned
         /\ wrapper.phase = "exited"
         /\ wrapper.exitCode = 1

\* C14 (as stated): given evvm:init, evvm:deploy, evvm:benchmark, evvm:list or
\* evvm:demo as first argument, hardhat3-wrapper.mjs starts the CLI with init,
\* deploy, benchmark, list or demo followed by the remaining arguments,
\* unchanged and in order, and exits with the CLI's exit code; for any other
\* first argument starting with 'evvm:' it exits with 1 and starts nothing.
C14_WrapperForwards ==
    (WrapperRan /\ StartsWithEvvm(wrapper.args[1])) => Forwards

\* C14 (amended): the same, unless HARDHAT_PLUGIN is 'true' or one of the
\* arguments is '--hardhat'; then the wrapper prints its help, starts nothing
\* and exits with 0.
C14_WrapperForwardsUnlessHelp ==
    (WrapperRan /\ StartsWithEvvm(wrapper.args[1]))
        => IF isHardhatCall(wrapper.args, wrapper.env)
           THEN ~wrapper.spawned /\ wrapper.phase = "exited" /\ wrapper.exitCode = 0
           ELSE Forwards

C14_Witness ==
    /\ wrapper.phase = "exited"
    /\ wrapper.args = <<"evvm:benchmark", "my-instance", "list">>
    /\ ~wrapper.env
    /\ wrapper.child = <<"benchmark", "my-instance", "list">>
    /\ wrapper.closeCode = 1
    /\ wrapper.exitCode = 1

\* the transactions whose execution has begun
Started == {p \in DOMAIN run.started : run.started[p] > 0}
\* the nonces the caller supplied are pairwise distinct
SuppliedDistinct ==
    \A p, q \in DOMAIN run.transactions :
        (p # q /\ run.transactions[p] # NoNonce) => run.transactions[p] # run.transactions[q]

\* C15 (as stated): within one EVVMClient.executeParallelTransactions call no
\* two transactions are executed with the same nonce whenever the nonces the
\* caller supplied are pairwise distinct, and a supplied nonce, 0 included, is
\* the nonce its transaction is executed with.
C15_NoncesDistinct ==
    (RunActive /\ run.executor = "EVVMClient" /\ SuppliedDistinct)
        => /\ \A p, q \in Started : p # q => run.nonces[p] # run.nonces[q]
           /\ \A p \in Started :
                run.transactions[p] # NoNonce => run.nonces[p] = run.transactions[p]

\* the step is an evvm:deploy or evvm:benchmark task run without --instance
TaskStepNoArg ==
    /\ CmdStep
    /\ lastCmd'.front = "task"
    /\ lastCmd'.cmd \in {"deploy", "benchmark"}
    /\ lastCmd'.arg = NoArg
\* the last command was an evvm:init, or an evvm:deploy without --instance,
\* that wrote its instance file
TaskWrote ==
    /\ lastCmd.front = "task"
    /\ \/ lastCmd.cmd = "init"
       \/ lastCmd.cmd = "deploy" /\ lastCmd.arg = NoArg /\ lastCmd.error = ErrNone
SelectsMostRecent ==
    TaskStepNoArg
        => IF Existing(evvmFiles) = {}
           THEN lastCmd'.error = ErrNoInstances /\ lastCmd'.exit = 1
           ELSE lastCmd'.id \in MostRecent(evvmFiles)

\* C16 (as stated): without --instance, evvm:deploy and evvm:benchmark select
\* the instance whose file has the greatest modification time and fail when
\* there is none; hence an evvm:deploy that follows an evvm:init, and an
\* evvm:benchmark that follows that deploy, act on the instance of the init.
C16_SameInstance ==
    [][/\ SelectsMostRecent
       /\ (TaskWrote /\ TaskStepNoArg) => lastCmd'.id = lastCmd.id]_vars

\* C16 (amended): the selected instance is one whose file has the greatest
\* modification time; the instance an init or deploy has just written is one
\* of these, and the next deploy or benchmark acts on it provided no other
\* instance file has the same modification time.
C16_SameInstanceUnlessTie ==
    /\ [](TaskWrote => lastCmd.id \in MostRecent(evvmFiles))
    /\ [][/\ SelectsMostRecent
          /\ (TaskWrote /\ TaskStepNoArg /\ MostRecent(evvmFiles) = {lastCmd.id})
                => lastCmd'.id = lastCmd.id]_vars

C16_Witness ==
    /\ lastCmd.front = "task"
    /\ lastCmd.cmd = "deploy"
    /\ lastCmd.arg = NoArg
    /\ lastCmd.error = ErrNone
    /\ evvmFiles[lastCmd.id].status = "deployed"
    /\ \E other \in Existing(evvmFiles) :
        /\ evvmFiles[other].mtime < evvmFiles[lastCmd.id].createdAt
        /\ evvmFiles[other].status = "initialized"

\* C17 (as stated): in every benchmark result of every benchmark function, in
\* demo and in non-demo mode and for every txCount >= 0,
\* successfulTransactions + failedTransactions = totalTransactions.
C17_CountsAddUp ==
    RunActive =>
        \A i \in 1..Len(run.benchmarks) :
            run.benchmarks[i].successfulTransactions + run.benchmarks[i].failedTransactions
                = run.benchmarks[i].totalTransactions

\* C18: during a parallel run with concurrency c >= 1 (runBenchmark of
\* evvm-benchmark.ts in parallel mode, ArcologyClient.executeParallel,
\* EVVMClient.executeParallelTransactions) at most c simulated transactions
\* are in flight at any time, and no transaction of chunk k+1 starts before
\* every transaction of chunk k has completed.
C18_AtMostCInFlight ==
    (RunActive /\ run.mode = "parallel"
       /\ run.executor \in {"runBenchmark", "ArcologyClient", "EVVMClient"} /\ ~run.demo)
        => /\ Cardinality(run.inFlight) <= run.concurrency
           /\ \A p \in run.inFlight : run.started[p] = run.chunkIndex
           /\ \A p \in DOMAIN run.started :
                (run.started[p] > 0 /\ run.started[p] < run.chunkIndex)
                    => p \in run.completed
           /\ \A k \in 1..(run.chunkIndex - 1) : Elements(run.chunks[k]) \subseteq run.completed

C18_Witness ==
    /\ run.phase = "parallel"
    /\ run.executor = "runBenchmark"
    /\ run.concurrency = 2
    /\ run.chunkIndex = 2
    /\ run.inFlight = {3}
    /\ run.completed = {1, 2}
    /\ run.started = <<1, 1, 2>>

\* C19 (as stated): for an existing instance with status 'deployed' the
\* evvm:benchmark Hardhat task runs the serial, then the parallel, then the
\* EVVM-async benchmark, writes the results record with its bigint-typed
\* totalGasUsed and averageGasPerTx fields as JSON, and reports success.
C19_TaskWritesResults ==
    (/\ lastCmd.cmd = "benchmark"
     /\ lastCmd.front = "task"
     /\ lastCmd.id \in Existing(evvmFiles)
     /\ evvmFiles[lastCmd.id].status = "deployed")
        => /\ lastCmd.ran = <<"serial", "parallel", "evvm-async">>
           /\ lastCmd.id \in evvmResults
           /\ lastCmd.error = ErrNone
           /\ lastCmd.exit = 0

\* C20 (as stated): in the parallel result of ArcologyClient.runBenchmark
\* parallelGroups is the number of groups executeParallel formed and executed,
\* ceil(transactions.length / concurrency), for every concurrency >= 1; in the
\* serial result it is 1.
C20_ParallelGroupsIsGroupCount ==
    (RunDone /\ run.executor = "ArcologyClient")
        => /\ Len(run.benchmarks) = 2
           /\ run.benchmarks[1].mode = "serial"
           /\ run.benchmarks[1].parallelGroups = 1
           /\ run.benchmarks[2].mode = "parallel"
           /\ run.chunkIndex = Len(run.chunks)
           /\ Len(run.chunks) = Ceil(Len(run.transactions), run.concurrency)
           /\ run.benchmarks[2].parallelGroups = Len(run.chunks)

\* C21 (as stated): in both contracts getLastIncrement() changes only in
\* transactions that increase the count; decrement() and reset() leave it
\* unchanged.
C21_LastIncrementOnlyOnIncrease ==
    [][/\ (TxStep("decrement") \/ TxStep("reset")) => getLastIncrement' = getLastIncrement
       /\ getLastIncrement' # getLastIncrement
            => /\ lastTx'.status = "ok"
               /\ lastTx'.op \in {"increment", "incrementBy", "batchIncrement", "fastIncrement",
                                  "parallelIncrement", "concurrentIncrement"}]_vars

\* C22 (as stated): the loop that cuts the transaction list into chunks always
\* advances and ends, for every txCount >= 0 and every integer concurrency,
\* 0 and negative values included: each iteration moves the index forward,
\* and the loop never takes more iterations than the list has elements.
C22_ChunkLoopAdvancesAndEnds ==
    /\ [](loop.phase = "looping" => loop.iterations <= Len(loop.array))
    /\ [][(loop.phase = "looping" /\ loop'.phase = "looping")
            => loop'.i > loop.i]_vars

\* C23 (as stated): for every txCount >= 0, txCount = 0 included, no non-demo
\* benchmark result is computed with a zero divisor: the divisors of
\* averageLatencyMs, of tps and of averageGasPerTx are non-zero, and so are
\* the tps and the latency of a serial result, which divide the comparison
\* percentages.
C23_NoZeroDivisor ==
    (run.phase # "idle" /\ ~run.demo) =>
        \A k \in 1..Len(run.benchmarks) :
            LET result == run.benchmarks[k]
            IN /\ result.latencyDivisor # 0
               /\ result.tpsDivisor # 0
               /\ result.gasDivisor # 0
               /\ result.mode = "serial"
                    => /\ result.tps = "positive"
                       /\ result.averageLatencyMs = "positive"

\* C24 (as stated): with the plugin-based deploy command, once an instance
\* has status 'deployed' its contractAddress is never replaced by a later
\* deploy command: a deploy on an already deployed instance is rejected, as
\* it is in the Hardhat task, and leaves the instance file as it is.
C24_DeployedAddressKept ==
    [][\A i \in Ids :
         (cliFiles[i] # NoFile /\ cliFiles[i].status = "deployed")
            => /\ cliFiles'[i] # NoFile
               /\ cliFiles'[i].contractAddress = cliFiles[i].contractAddress
               /\ (CmdStep /\ lastCmd'.cmd = "deploy" /\ lastCmd'.front = "cli"
                     /\ lastCmd'.id = i)
                    => /\ lastCmd'.exit = 1
                       /\ lastCmd'.ran = <<>>
                       /\ cliFiles'[i] = cliFiles[i]]_vars

\* C25 (as stated): whenever the evvm:deploy Hardhat task, run on an
\* initialized instance, ends in failure (exit code 1), whichever step
\* failed - contract compilation and writing the deployment log included -
\* the instance file still holds status 'initialized' and an empty
\* contractAddress, so that the deploy can be run again.
C25_FailedDeployLeavesInitialized ==
    [][\A i \in Ids :
         (/\ CmdStep
          /\ lastCmd'.cmd = "deploy" /\ lastCmd'.front = "task" /\ lastCmd'.id = i
          /\ lastCmd'.exit = 1
          /\ evvmFiles[i] # NoFile /\ evvmFiles[i].status = "initialized")
            => /\ evvmFiles'[i].status = "initialized"
               /\ evvmFiles'[i].contractAddress = ""]_vars

====
